---- MODULE Spec2Model ----
(***************************************************************************)
(* A model of shortify.js (src/unnamed/part_000): the pipeline that turns  *)
(* a landscape video into a portrait "panning" video.  processVideo is one *)
(* async function; every await of an external process is one step of the   *)
(* model, and the outcome of the external process (ffprobe, ffmpeg) is     *)
(* chosen nondeterministically from bounded sets.                          *)
(*                                                                         *)
(* Times (timestamps, durations) are modelled as exact rationals plus NaN:  *)
(* a number is a record [nan, n, d] kept in lowest terms, so that record   *)
(* equality is numeric equality.  The scale factor of the geometry is      *)
(* modelled as an IEEE double, bit by bit.                                 *)
(***************************************************************************)
EXTENDS Integers, Sequences, FiniteSets, TLC

----------------------------------------------------------------------------
(* Bounds of the model *)

\* most frame files one ffmpeg frame pass writes
MaxFrames == 3
\* most lines of the showinfo diagnostic stream
MaxLines == 3

\* the largest frame count the even division is applied to on its own
MaxSegments == 7

(* Program constants *)

FRAME_RATE == 60
\* "if (frameFiles.length < 2)"
MinSceneFrames == 2

----------------------------------------------------------------------------
(* Numbers *)

Abs(x) == IF x < 0 THEN -x ELSE x

RECURSIVE GCD(_, _)
GCD(a, b) == IF b = 0 THEN a ELSE GCD(b, a % b)

NaN == [nan |-> TRUE, n |-> 0, d |-> 1]

\* the rational n/d (d > 0) in lowest terms
R(n, d) == LET g == GCD(Abs(n), d) IN [nan |-> FALSE, n |-> n \div g, d |-> d \div g]

Int2Num(i) == R(i, 1)

Sub(a, b) == IF a.nan \/ b.nan THEN NaN ELSE R(a.n * b.d - b.n * a.d, a.d * b.d)

Mul(a, b) == IF a.nan \/ b.nan THEN NaN ELSE R(a.n * b.n, a.d * b.d)

\* a / b for b # 0 (the model never divides by zero: see GetFrameTimestamps)
Div(a, b) ==
    IF a.nan \/ b.nan THEN NaN
    ELSE IF b.n < 0 THEN R(-(a.n * b.d), a.d * (-b.n))
    ELSE R(a.n * b.d, a.d * b.n)

\* comparisons with NaN are false
Ge(a, b) == ~a.nan /\ ~b.nan /\ a.n * b.d >= b.n * a.d

\* arr[i] of a JavaScript array (0-based), where undefined coerces to NaN
At(arr, i) == IF i + 1 \in 1..Len(arr) THEN arr[i + 1] ELSE NaN

----------------------------------------------------------------------------
(* IEEE doubles, for the geometry of createPanningVideo, where the rounding *)
(* of the quotient decides the result of Math.round.  A positive double is  *)
(* [bits, exp]: a significand of SignificandBits bits, most significant     *)
(* first, and the weight of its last bit; its value is bits * 2^exp.        *)

SignificandBits == 53

\* the significand is multiplied LimbBits bits at a time
LimbBits == 16

NaNDouble == [nan |-> TRUE, bits |-> <<>>, exp |-> 0]

RECURSIVE Pow2(_)
Pow2(s) == IF s = 0 THEN 1 ELSE 2 * Pow2(s - 1)

\* the number of bits of n
RECURSIVE BitLength(_)
BitLength(n) == IF n = 0 THEN 0 ELSE 1 + BitLength(n \div 2)

\* the width low bits of n, most significant first
PadBits(n, width) == [i \in 1..width |-> (n \div Pow2(width - i)) % 2]

\* the bits of n, without leading zeros
ToBits(n) == PadBits(n, BitLength(n))

RECURSIVE FromBits(_)
FromBits(bits) ==
    IF bits = <<>> THEN 0
    ELSE 2 * FromBits(SubSeq(bits, 1, Len(bits) - 1)) + bits[Len(bits)]

\* bits + 1; the result is one bit longer when every bit is 1
IncBits(bits) ==
    IF \A i \in 1..Len(bits) : bits[i] = 1
    THEN [i \in 1..(Len(bits) + 1) |-> IF i = 1 THEN 1 ELSE 0]
    ELSE LET p == CHOOSE i \in 1..Len(bits) :
                      bits[i] = 0 /\ \A j \in (i + 1)..Len(bits) : bits[j] = 1
         IN  [i \in 1..Len(bits) |-> IF i < p THEN bits[i] ELSE IF i = p THEN 1 ELSE 0]

\* round to nearest, ties to even: bits holds SignificandBits + 1 bits (the
\* last one is the guard bit, of weight 2^exp), sticky says that the exact
\* value has a non-zero bit below the guard bit
RoundBits(bits, sticky, exp) ==
    LET keep  == SubSeq(bits, 1, SignificandBits)
        guard == bits[SignificandBits + 1]
        up    == guard = 1 /\ (sticky \/ keep[SignificandBits] = 1)
        inc   == IncBits(keep)
    IN  IF ~up THEN [nan |-> FALSE, bits |-> keep, exp |-> exp + 1]
        ELSE IF Len(inc) > SignificandBits
        THEN [nan |-> FALSE, bits |-> SubSeq(inc, 1, SignificandBits), exp |-> exp + 2]
        ELSE [nan |-> FALSE, bits |-> inc, exp |-> exp + 1]

\* 2^k modulo b
RECURSIVE Pow2Mod(_, _)
Pow2Mod(k, b) ==
    IF k = 0 THEN 1 % b
    ELSE IF k % 2 = 0 THEN (Pow2Mod(k \div 2, b) * Pow2Mod(k \div 2, b)) % b
    ELSE (2 * Pow2Mod(k - 1, b)) % b

\* what remains of r / b (r < b) below its first k fractional bits: r * 2^k mod b
FracRem(r, b, k) == (r * Pow2Mod(k, b)) % b

\* the first n bits of the binary fraction r / b (r < b)
FracBits(r, b, n) == [k \in 1..n |-> IF 2 * FracRem(r, b, k - 1) >= b THEN 1 ELSE 0]

\* the least s with a * 2^s >= b
RECURSIVE Shift(_, _)
Shift(a, b) == IF a >= b THEN 0 ELSE 1 + Shift(2 * a, b)

\* the double a / b of two positive integers (b * b below 2^31)
DoubleDiv(a, b) ==
    LET s     == Shift(a, b)
        a2    == a * Pow2(s)
        whole == ToBits(a2 \div b)
        n     == SignificandBits + 1 - Len(whole)
    IN  RoundBits(whole \o FracBits(a2 % b, b, n), FracRem(a2 % b, b, n) # 0, -n - s)

\* bits * w + carry, exactly, LimbBits bits at a time (w below 2^14)
RECURSIVE MulCarry(_, _, _)
MulCarry(bits, w, carry) ==
    IF bits = <<>> THEN ToBits(carry)
    ELSE LET k    == IF Len(bits) < LimbBits THEN Len(bits) ELSE LimbBits
             limb == FromBits(SubSeq(bits, Len(bits) - k + 1, Len(bits)))
             t    == limb * w + carry
         IN  MulCarry(SubSeq(bits, 1, Len(bits) - k), w, t \div Pow2(k)) \o PadBits(t % Pow2(k), k)

\* the double w * x of a positive integer w and a positive double x
DoubleMulInt(w, x) ==
    LET exact  == MulCarry(x.bits, w, 0)
        padded == IF Len(exact) = SignificandBits THEN Append(exact, 0) ELSE exact
        below  == SubSeq(padded, SignificandBits + 2, Len(padded))
        sticky == \E i \in 1..Len(below) : below[i] = 1
    IN  RoundBits(padded, sticky, x.exp + Len(exact) - (SignificandBits + 1))

\* Math.round of a positive double below 2^31: the integer part, plus one
\* when the first fractional bit is set (a half rounds up)
DoubleRound(x) ==
    LET k == SignificandBits + x.exp
    IN  IF k < 0 THEN 0
        ELSE IF k >= SignificandBits THEN FromBits(x.bits) * Pow2(x.exp)
        ELSE FromBits(SubSeq(x.bits, 1, k)) + x.bits[k + 1]

\* the double 0
ZeroDouble == [nan |-> FALSE, bits |-> [i \in 1..SignificandBits |-> 0], exp |-> 0]

IsZero(x) == \A i \in 1..Len(x.bits) : x.bits[i] = 0

Zeros(k) == [i \in 1..k |-> 0]

\* bits without its leading zeros
StripZeros(bits) ==
    IF \A i \in 1..Len(bits) : bits[i] = 0 THEN <<>>
    ELSE LET p == CHOOSE i \in 1..Len(bits) : bits[i] = 1 /\ \A j \in 1..(i - 1) : bits[j] = 0
         IN  SubSeq(bits, p, Len(bits))

\* the double nearest to bits * 2^exp (a leading 1, any length), when what was
\* cut off below bits is zero (~lost) or not
Normalize(bits, lost, exp) ==
    LET len == Len(bits)
    IN  IF len <= SignificandBits
        THEN [nan |-> FALSE, bits |-> bits \o Zeros(SignificandBits - len),
              exp |-> exp - (SignificandBits - len)]
        ELSE RoundBits(SubSeq(bits, 1, SignificandBits + 1),
                       lost \/ \E i \in (SignificandBits + 2)..len : bits[i] = 1,
                       exp + len - (SignificandBits + 1))

\* a < b for doubles that are not negative
DoubleLess(a, b) ==
    IF IsZero(b) THEN FALSE
    ELSE IF IsZero(a) THEN TRUE
    ELSE IF a.exp # b.exp THEN a.exp < b.exp
    ELSE \E i \in 1..SignificandBits :
            a.bits[i] < b.bits[i] /\ \A j \in 1..(i - 1) : a.bits[j] = b.bits[j]

\* bits divided by n, LimbBits bits at a time from the top: the quotient, as
\* long as bits, and the remainder (n below 2^14)
RECURSIVE DivLimbs(_, _, _)
DivLimbs(bits, n, rem) ==
    IF bits = <<>> THEN [q |-> <<>>, r |-> rem]
    ELSE LET k    == IF Len(bits) < LimbBits THEN Len(bits) ELSE LimbBits
             t    == rem * Pow2(k) + FromBits(SubSeq(bits, 1, k))
             rest == DivLimbs(SubSeq(bits, k + 1, Len(bits)), n, t % n)
         IN  [q |-> PadBits(t \div n, k) \o rest.q, r |-> rest.r]

\* the double x / n of a positive double x and a positive integer n
DoubleDivInt(x, n) ==
    LET d == DivLimbs(x.bits \o Zeros(LimbBits), n, 0)
    IN  Normalize(StripZeros(d.q), d.r # 0, x.exp - LimbBits)

\* the double i * x of an integer i >= 0 and a positive double x
DoubleTimes(i, x) == IF i = 0 THEN ZeroDouble ELSE DoubleMulInt(i, x)

\* x - y - borrow for bit sequences of one length, LimbBits bits at a time
RECURSIVE SubBorrow(_, _, _)
SubBorrow(x, y, borrow) ==
    IF x = <<>> THEN <<>>
    ELSE LET k == IF Len(x) < LimbBits THEN Len(x) ELSE LimbBits
             t == FromBits(SubSeq(x, Len(x) - k + 1, Len(x)))
                    - FromBits(SubSeq(y, Len(y) - k + 1, Len(y))) - borrow
         IN  SubBorrow(SubSeq(x, 1, Len(x) - k), SubSeq(y, 1, Len(y) - k),
                       IF t < 0 THEN 1 ELSE 0)
                 \o PadBits(IF t < 0 THEN t + Pow2(k) ELSE t, k)

\* x + y + carry for bit sequences of one length; the sum is as long
\* (the callers leave room at the top)
RECURSIVE AddCarry(_, _, _)
AddCarry(x, y, carry) ==
    IF x = <<>> THEN <<>>
    ELSE LET k == IF Len(x) < LimbBits THEN Len(x) ELSE LimbBits
             t == FromBits(SubSeq(x, Len(x) - k + 1, Len(x)))
                    + FromBits(SubSeq(y, Len(y) - k + 1, Len(y))) + carry
         IN  AddCarry(SubSeq(x, 1, Len(x) - k), SubSeq(y, 1, Len(y) - k), t \div Pow2(k))
                 \o PadBits(t % Pow2(k), k)

\* the double a - b of doubles a >= b >= 0
Magnitude(a, b) ==
    IF IsZero(b) THEN a
    ELSE IF a = b THEN ZeroDouble
    ELSE LET shift == a.exp - b.exp
         IN  Normalize(StripZeros(SubBorrow(a.bits \o Zeros(shift),
                                            Zeros(shift) \o b.bits, 0)),
                       FALSE, b.exp)

\* the double a - b of doubles that are not negative: a sign and a magnitude
DoubleMinus(a, b) ==
    IF a.nan \/ b.nan THEN [neg |-> FALSE, mag |-> NaNDouble]
    ELSE IF DoubleLess(a, b) THEN [neg |-> TRUE, mag |-> Magnitude(b, a)]
    ELSE [neg |-> FALSE, mag |-> Magnitude(a, b)]

----------------------------------------------------------------------------
(* The asset: what ffprobe reports for the input video.  A field ffprobe   *)
(* prints nothing or "N/A" for parses to NaN (parseInt, parseFloat).       *)

\* widths and heights are positive integers (ffprobe prints the stream's
\* dimensions) or NaN
Widths == {Int2Num(500), Int2Num(854), Int2Num(1550), Int2Num(1920), NaN}

Heights == {Int2Num(480), Int2Num(992), Int2Num(1080), Int2Num(2159), Int2Num(2160), NaN}

Durations == {Int2Num(4), Int2Num(10), NaN}

Assets == [width : Widths, height : Heights, duration : Durations]

NoInfo == [width |-> NaN, height |-> NaN, duration |-> NaN]

----------------------------------------------------------------------------
(* The showinfo diagnostic stream.  stderr.split('\n') is a sequence of    *)
(* lines, and a line is a sequence of tokens: the decimal digits, the dot,  *)
(* and whole words such as the marker "pts_time:".                          *)

Digits == {"0", "1", "2", "3", "4", "5", "6", "7", "8", "9"}

DigitValue(c) ==
    CASE c = "0" -> 0 [] c = "1" -> 1 [] c = "2" -> 2 [] c = "3" -> 3 [] c = "4" -> 4
      [] c = "5" -> 5 [] c = "6" -> 6 [] c = "7" -> 7 [] c = "8" -> 8 [] c = "9" -> 9

DigitToken(n) == CHOOSE c \in Digits : DigitValue(c) = n

\* the character class [\d\.]
DigitOrDot == Digits \cup {"."}

\* the digits at the front of text
RECURSIVE DigitPrefix(_)
DigitPrefix(text) ==
    IF text = <<>> \/ Head(text) \notin Digits THEN <<>>
    ELSE <<Head(text)>> \o DigitPrefix(Tail(text))

RECURSIVE DecimalValue(_)
DecimalValue(digits) ==
    IF digits = <<>> THEN 0
    ELSE 10 * DecimalValue(SubSeq(digits, 1, Len(digits) - 1)) + DigitValue(digits[Len(digits)])

RECURSIVE Pow10(_)
Pow10(k) == IF k = 0 THEN 1 ELSE 10 * Pow10(k - 1)

\* parseFloat that reads a lone dot as zero instead of NaN
ParseFloat_DotIsZero(text) ==
    LET whole == DigitPrefix(text)
        rest  == SubSeq(text, Len(whole) + 1, Len(text))
        frac  == IF rest # <<>> /\ Head(rest) = "." THEN DigitPrefix(Tail(rest)) ELSE <<>>
    IN  R(DecimalValue(whole \o frac), Pow10(Len(frac)))

\* parseFloat(m[1]): the longest prefix that is a decimal literal (digits, then
\* at most one dot and more digits); NaN when that prefix holds no digit
ParseFloat(text) ==
    LET whole == DigitPrefix(text)
        rest  == SubSeq(text, Len(whole) + 1, Len(text))
        frac  == IF rest # <<>> /\ Head(rest) = "." THEN DigitPrefix(Tail(rest)) ELSE <<>>
    IN  IF whole = <<>> /\ frac = <<>> THEN NaN
        ELSE R(DecimalValue(whole \o frac), Pow10(Len(frac)))

\* line.match(/pts_time:([\d\.]+)/): the capture m[1] of the leftmost match,
\* the longest run of digits and dots right after the marker; <<>> is null
RegexMatch(line) ==
    LET starts == {i \in 1..(Len(line) - 1) :
                      line[i] = "pts_time:" /\ line[i + 1] \in DigitOrDot}
    IN  IF starts = {} THEN <<>>
        ELSE LET i    == CHOOSE k \in starts : \A l \in starts : k <= l
                 last == CHOOSE j \in (i + 1)..Len(line) :
                             /\ \A k \in (i + 1)..j : line[k] \in DigitOrDot
                             /\ j = Len(line) \/ line[j + 1] \notin DigitOrDot
             IN  SubSeq(line, i + 1, last)

RECURSIVE extractSceneTimestampsFromShowinfo(_)
extractSceneTimestampsFromShowinfo(lines) ==
    IF lines = <<>> THEN <<>>
    ELSE LET m    == RegexMatch(Head(lines))
             t    == ParseFloat(m)
             rest == extractSceneTimestampsFromShowinfo(Tail(lines))
         IN  IF m # <<>> /\ ~t.nan THEN <<t>> \o rest ELSE rest

\* the pts_time values (seconds) a line of the pipeline's stream may carry
PtsValues == {0, 3, 4, 7}

\* a line of ffmpeg's own chatter, without the marker
NoiseLine == <<"frame=", "1", "2">>

\* the marker followed by dots only, which the pattern [\d\.]+ matches and
\* parseFloat turns into NaN
DotsLine == <<"pts_time:", ".">>

\* the line showinfo prints for a selected frame
PtsLine(p) == <<"n:", "1", "pts_time:", DigitToken(p), "duration:", "1">>

Lines == {NoiseLine, DotsLine} \cup {PtsLine(p) : p \in PtsValues}

\* the time a line carries, NaN when it carries none
PtsOf(line) == ParseFloat(RegexMatch(line))

\* ffmpeg prints the selected frames in presentation order
PtsIncreasing(lines) ==
    \A i, j \in 1..Len(lines) :
        (i < j /\ ~PtsOf(lines[i]).nan /\ ~PtsOf(lines[j]).nan)
            => Ge(PtsOf(lines[j]), PtsOf(lines[i])) /\ PtsOf(lines[j]) # PtsOf(lines[i])

StderrsOf(lineSet) ==
    UNION {{lines \in [1..n -> lineSet] : PtsIncreasing(lines)} : n \in 0..MaxLines}

Stderrs == StderrsOf(Lines)

\* the lines of the stream the extractor is applied to on its own: the empty
\* line after the last line break, chatter with digits, a frame without a
\* presentation time, full showinfo lines, and the marker with dots only
EmptyLine == <<>>

NoPtsLine == <<"n:", "0", "pts:", "NOPTS", "pts_time:", "NOPTS">>

ZeroLine == <<"n:", "0", "pts:", "0", "pts_time:", "0", "duration:", "1">>

FractionLine ==
    <<"n:", "1", "pts:", "3", "5", "0", "0", "pts_time:", "3", ".", "5", "duration:", "1">>

LongLine ==
    <<"n:", "2", "pts:", "1", "0", "2", "5", "0", "pts_time:", "1", "0", ".", "2", "5",
      "duration_time:", "0", ".", "0", "4">>

ShowinfoLines ==
    {EmptyLine, NoiseLine, NoPtsLine, ZeroLine, FractionLine, LongLine, DotsLine}

ShowinfoStderrs == StderrsOf(ShowinfoLines)

----------------------------------------------------------------------------
(* Frame files.  frame_<n>.png is modelled by the decimal digits of n, as   *)
(* they stand in the name; the stills directory is the set of names on disk.*)

\* the number of frames at which names of different lengths meet: frame_0 ..
\* frame_10 of the fixed-interval pass, frame_1 .. frame_11 of the scene pass
ManyFrames == 11

\* the numbers of frames a pass of ffmpeg writes
FrameCounts == 0..MaxFrames \cup {ManyFrames}

\* the digits %d prints for n
RECURSIVE FrameName(_)
FrameName(n) == IF n < 10 THEN <<n>> ELSE FrameName(n \div 10) \o <<n % 10>>

\* parseInt(name.match(/frame_(\d+)\.png/)[1])
RECURSIVE ParseInt(_)
ParseInt(name) ==
    IF Len(name) = 1 THEN name[1]
    ELSE 10 * ParseInt(SubSeq(name, 1, Len(name) - 1)) + name[Len(name)]

\* the order of the names as strings: "frame_10.png" is before "frame_2.png",
\* and "frame_1.png" before "frame_10.png" ("." is before every digit)
RECURSIVE NameBefore(_, _)
NameBefore(a, b) ==
    IF a = <<>> THEN b # <<>>
    ELSE IF b = <<>> THEN FALSE
    ELSE IF Head(a) # Head(b) THEN Head(a) < Head(b)
    ELSE NameBefore(Tail(a), Tail(b))

\* the names of a directory in the order of the names as strings
RECURSIVE ByName(_)
ByName(dir) ==
    IF dir = {} THEN <<>>
    ELSE LET first == CHOOSE f \in dir : \A g \in dir \ {f} : NameBefore(f, g)
         IN  <<first>> \o ByName(dir \ {first})

Reverse(s) == [i \in 1..Len(s) |-> s[Len(s) + 1 - i]]

\* the orders in which readdir may list a directory: every order for a
\* directory of up to MaxFrames files; for a larger one the order of the
\* names as strings and its reverse
Listings(dir) ==
    IF Cardinality(dir) <= MaxFrames
    THEN {l \in [1..Cardinality(dir) -> dir] :
              \A f \in dir : \E i \in 1..Cardinality(dir) : l[i] = f}
    ELSE {ByName(dir), Reverse(ByName(dir))}

\* the place of a frame in a list sorted by sort() without a comparator, which
\* compares the names as strings
RECURSIVE InsertByName(_, _)
InsertByName(f, sorted) ==
    IF sorted = <<>> THEN <<f>>
    ELSE IF NameBefore(f, Head(sorted)) THEN <<f>> \o sorted
    ELSE <<Head(sorted)>> \o InsertByName(f, Tail(sorted))

\* SortFrames with sort() without the comparator
RECURSIVE SortFrames_ByName(_)
SortFrames_ByName(listing) ==
    IF listing = <<>> THEN <<>>
    ELSE InsertByName(listing[Len(listing)],
                      SortFrames_ByName(SubSeq(listing, 1, Len(listing) - 1)))

\* the comparator numA - numB
RECURSIVE InsertByOrdinal(_, _)
InsertByOrdinal(f, sorted) ==
    IF sorted = <<>> THEN <<f>>
    ELSE IF ParseInt(f) - ParseInt(Head(sorted)) < 0 THEN <<f>> \o sorted
    ELSE <<Head(sorted)>> \o InsertByOrdinal(f, Tail(sorted))

\* files.filter(...).sort((a, b) => numA - numB)
RECURSIVE SortFrames(_)
SortFrames(listing) ==
    IF listing = <<>> THEN <<>>
    ELSE InsertByOrdinal(listing[Len(listing)], SortFrames(SubSeq(listing, 1, Len(listing) - 1)))

Range(s) == {s[i] : i \in 1..Len(s)}

\* ffmpeg ... frame_%d.png writes frame_1 .. frame_k
SceneFiles(k) == {FrameName(n) : n \in 1..k}

\* ffmpeg ... -frame_pts 1 frame_%d.png names the files by pts: frame_0 ..
FixedFiles(m) == {FrameName(n) : n \in 0..(m - 1)}

\* TooFewFrames that never asks for the fixed-interval pass
TooFewFrames_Never(frameFiles) == Len(frameFiles) < 0

\* TooFewFrames with the threshold off by one: a single frame is kept
TooFewFrames_OffByOne(frameFiles) == Len(frameFiles) < MinSceneFrames - 1

\* "if (frameFiles.length < 2)"
TooFewFrames(frameFiles) == Len(frameFiles) < MinSceneFrames

----------------------------------------------------------------------------
(* Timestamps *)

\* Array.from({length: count}, (_, i) => i * interval), interval = duration / count
EvenTimestamps(duration, count) ==
    [i \in 1..count |-> Mul(Int2Num(i - 1), Div(duration, Int2Num(count)))]

\* NeedsEvenTimestamps asking for more than one frame
NeedsEvenTimestamps_OffByOne(ts, frames) == Len(ts) = 0 /\ Len(frames) > 1

\* "if (timestamps.length === 0 && frameFiles.length > 0)"
NeedsEvenTimestamps(ts, frames) == Len(ts) = 0 /\ Len(frames) > 0

\* getFrameTimestamps: its scene-detection command ends in "2>&1", so the
\* stderr it parses is empty; failed is the outcome of that command
getFrameTimestamps(info, frameCount, usedRegular, failed) ==
    IF usedRegular THEN EvenTimestamps(info.duration, frameCount)
    ELSE IF failed THEN EvenTimestamps(info.duration, frameCount)
    ELSE LET parsed == <<>>
         IN  IF Len(parsed) < frameCount
             THEN EvenTimestamps(info.duration, frameCount)
             ELSE parsed

----------------------------------------------------------------------------
(* createPanningVideo: geometry, segment durations, filter graph *)

Lt(a, b) == ~a.nan /\ ~b.nan /\ a.n * b.d < b.n * a.d

\* Canvas with a strict comparison: a source of exactly 2160 lines gets the small canvas
Canvas_StrictThreshold(landscapeHeight) ==
    IF Lt(Int2Num(2160), landscapeHeight)
    THEN [portraitWidth |-> 2160, portraitHeight |-> 3840]
    ELSE [portraitWidth |-> 608, portraitHeight |-> 1080]

\* the output canvas: portraitWidth x portraitHeight
Canvas(landscapeHeight) ==
    IF Ge(landscapeHeight, Int2Num(2160))
    THEN [portraitWidth |-> 2160, portraitHeight |-> 3840]
    ELSE [portraitWidth |-> 608, portraitHeight |-> 1080]

\* portraitHeight / landscapeHeight, a double
ScaleFactor(info) ==
    IF info.height.nan THEN NaNDouble
    ELSE DoubleDiv(Canvas(info.height).portraitHeight, info.height.n)

\* Math.floor of a positive double below 2^31
DoubleFloor(x) ==
    LET k == SignificandBits + x.exp
    IN  IF k <= 0 THEN 0
        ELSE IF k >= SignificandBits THEN FromBits(x.bits) * Pow2(x.exp)
        ELSE FromBits(SubSeq(x.bits, 1, k))

\* ScaledWidth with Math.floor in place of Math.round
ScaledWidth_Floor(info) ==
    IF info.width.nan \/ info.height.nan THEN NaN
    ELSE Int2Num(DoubleFloor(DoubleMulInt(info.width.n, ScaleFactor(info))))

\* Math.round(landscapeWidth * scaleFactor)
ScaledWidth(info) ==
    IF info.width.nan \/ info.height.nan THEN NaN
    ELSE Int2Num(DoubleRound(DoubleMulInt(info.width.n, ScaleFactor(info))))

\* PanDistance clamped at zero
PanDistance_Clamped(info) ==
    LET d == Sub(ScaledWidth(info), Int2Num(Canvas(info.height).portraitWidth))
    IN  IF ~d.nan /\ d.n < 0 THEN Int2Num(0) ELSE d

\* scaledWidth - portraitWidth
PanDistance(info) == Sub(ScaledWidth(info), Int2Num(Canvas(info.height).portraitWidth))

GeometryPlan(info) ==
    [portraitWidth  |-> Canvas(info.height).portraitWidth,
     portraitHeight |-> Canvas(info.height).portraitHeight,
     scaledWidth    |-> ScaledWidth(info),
     panDistance    |-> PanDistance(info)]

\* GeometryPlan, tabulated once for the widths and heights of the model
GeometryPlans ==
    [w \in Widths, h \in Heights |-> GeometryPlan([width |-> w, height |-> h, duration |-> NaN])]

NoPlan ==
    [portraitWidth |-> 0, portraitHeight |-> 0, scaledWidth |-> NaN, panDistance |-> NaN]

\* SegmentDuration with the last-segment test off by one: the last frame
\* reads timestamps[i + 1]
SegmentDuration_OffByOne(i, ts, info) ==
    IF i < Len(ts)
    THEN Sub(At(ts, i + 1), At(ts, i))
    ELSE Sub(info.duration, At(ts, i))

\* the duration of frame i (0-based) of the loop over frameFiles
SegmentDuration(i, ts, info) ==
    IF i < Len(ts) - 1
    THEN Sub(At(ts, i + 1), At(ts, i))
    ELSE Sub(info.duration, At(ts, i))

SegmentDurations(frames, ts, info) ==
    [k \in 1..Len(frames) |-> SegmentDuration(k - 1, ts, info)]

\* "-loop 1 -t ${duration} -i frameFile"
RenderInputs(frames, ts, info) ==
    [k \in 1..Len(frames) |-> [loop |-> 1, t |-> SegmentDuration(k - 1, ts, info), file |-> frames[k]]]

\* "[i:v]fps=60,scale=..,crop=w:h:'pan*t/duration':0,setpts=PTS-STARTPTS[vi];"
FilterChains(frames, ts, info, geometry) ==
    [k \in 1..Len(frames) |->
        [input     |-> k - 1,
         fps       |-> FRAME_RATE,
         scaleW    |-> geometry.scaledWidth,
         scaleH    |-> geometry.portraitHeight,
         cropW     |-> geometry.portraitWidth,
         cropH     |-> geometry.portraitHeight,
         panNum    |-> geometry.panDistance,
         panDen    |-> SegmentDuration(k - 1, ts, info),
         output    |-> k - 1]]

\* ConcatChain that leaves out the last chain
ConcatChain_OneShort(frames) ==
    [labels |-> [k \in 1..(Len(frames) - 1) |-> k - 1], n |-> Len(frames) - 1]

\* "[v0][v1]..concat=n=${frameFiles.length}:v=1:a=0[outv]"
ConcatChain(frames) == [labels |-> [k \in 1..Len(frames) |-> k - 1], n |-> Len(frames)]

RenderCommand(frames, ts, info, geometry) ==
    [inputs |-> RenderInputs(frames, ts, info),
     chains |-> FilterChains(frames, ts, info, geometry),
     concat |-> ConcatChain(frames)]

NoCommand == [inputs |-> <<>>, chains |-> <<>>, concat |-> [labels |-> <<>>, n |-> 0]]

----------------------------------------------------------------------------
(* Concurrent runs: TEMP_DIR is named after Date.now() when the script is    *)
(* loaded, relative to the working directory.                              *)

NumRuns == 2

MaxClock == 2

RunFrames == 2

Runs == 1..NumRuns

Clock == 0..MaxClock

\* `temp_shortify_${Date.now()}`
TEMP_DIR(ms) == <<"temp_shortify_", ms>>

NoDir == <<>>

\* the file `${TEMP_DIR}/stills/frame_${n}.png` as written by run owner
FrameFile(dir, n, owner) == [dir |-> dir, frame |-> n, owner |-> owner]

\* the files under a directory
FilesIn(files, dir) == {f \in files : f.dir = dir}

\* the ffmpeg of run r writes frame_1 .. frame_k into dir, replacing files of
\* the same name
WriteFrames(files, dir, k, r) ==
    {f \in files : ~(f.dir = dir /\ f.frame \in 1..k)} \cup {FrameFile(dir, n, r) : n \in 1..k}

----------------------------------------------------------------------------
(* concat.js *)

OUTPUT_4K_FMS == "outros/fms_outro_30fps_44100ar_4k.mp4"

OUTPUT_1080P_FMS == "outros/fms_outro_30fps_44100ar.mp4"

OUTPUT_4K_SCORE == "outros/scorefol.io_outro_30fps_44100ar_4k.mp4"

OUTPUT_1080P_SCORE == "outros/scorefol.io_outro_30fps_44100ar.mp4"

OUTPUT_4K_SITES == "outros/sites_outro_30fps_44100ar_4k.mp4"

OUTPUT_1080P_SITES == "outros/sites_outro_30fps_44100ar.mp4"

TEMP_VIDEO == "inputsf_30fps.mp4"

TEMP_VIDEO_WITH_SILENCE == "inputsf_30fps_with_silence.mp4"

VID_LIST_FILE == "vidList.txt"

NoFile == "none"

\* process.argv[3]: the three accepted types, another letter, and none
ArgTypes == {"F", "H", "S", "X", ""}

VideoTypes == {"F", "H", "S"}

\* a text is a sequence of tokens: a run of digits, a newline or a blank
WhiteSpace == {"\n", " "}

\* what ffprobe prints for stream=width: nothing, the width with or without
\* its newline, or one line per listing of the stream
Stdouts ==
    {<<>>, <<"\n">>}
        \cup {<<w>> : w \in {"3840", "1920"}}
        \cup {<<w, "\n">> : w \in {"3840", "1920", "1280", "38400"}}
        \cup {<<"3840", "\n", "3840", "\n">>}

RECURSIVE TrimStart(_)
TrimStart(s) == IF s # <<>> /\ Head(s) \in WhiteSpace THEN TrimStart(Tail(s)) ELSE s

RECURSIVE TrimEnd(_)
TrimEnd(s) ==
    IF s # <<>> /\ s[Len(s)] \in WhiteSpace THEN TrimEnd(SubSeq(s, 1, Len(s) - 1)) ELSE s

\* String.prototype.trim
Trim(s) == TrimEnd(TrimStart(s))

\* getOutroFile comparing resWidth with the number 3840, which no string equals
getOutroFile_NumberCompare(width, type) ==
    CASE type = "F" -> OUTPUT_1080P_FMS
      [] type = "H" -> OUTPUT_1080P_SCORE
      [] type = "S" -> OUTPUT_1080P_SITES

\* getOutroFile's selectedFile
getOutroFile(width, type) ==
    LET is4k == width = <<"3840">>
    IN  CASE type = "F" -> IF is4k THEN OUTPUT_4K_FMS ELSE OUTPUT_1080P_FMS
          [] type = "H" -> IF is4k THEN OUTPUT_4K_SCORE ELSE OUTPUT_1080P_SCORE
          [] type = "S" -> IF is4k THEN OUTPUT_4K_SITES ELSE OUTPUT_1080P_SITES

\* concatenateVideo's outputFileNames[videoType]
OutputFileNames(type) ==
    CASE type = "F" -> "_fms.mp4"
      [] type = "H" -> "_scorefolioHighlight.mp4"
      [] type = "S" -> "_sites.mp4"

\* `file '${TEMP_VIDEO_WITH_SILENCE}'\nfile '${outroFile}'`
VidListContent(outro) == <<TEMP_VIDEO_WITH_SILENCE, outro>>

----------------------------------------------------------------------------
(* The state of one run of processVideo *)

VARIABLES
    pc,                     \* the position of processVideo
    asset,                  \* what ffprobe reports for inputVideo
    videoInfo,              \* processVideo's videoInfo
    tempDir,                \* TEMP_DIR exists on disk
    stills,                 \* the frame files in TEMP_DIR/stills
    timestamps,             \* extractStills' timestamps
    usedRegularIntervals,   \* extractStills' usedRegularIntervals
    frameFiles,             \* extractStills' frameFiles
    finalTimestamps,        \* processVideo's finalTimestamps
    plan,                   \* the geometry createPanningVideo computed
    renderCmd,              \* the command createPanningVideo handed to safeExec
    outputFile,             \* OUTPUT_FILE has been written
    cleanupCalls,           \* the number of calls of cleanup([TEMP_DIR])
    exitCode,               \* the exit status of the process, -1 while it runs
    completeLogged,         \* "Processing complete." has been logged
    trace                   \* what happened so far (history, not program state)

\* several runs of shortify.js in one working directory
VARIABLES
    now,                    \* Date.now(), in milliseconds
    runPc,                  \* the position of each run
    runTempDir,             \* each run's TEMP_DIR
    dirs,                   \* the workspace directories on disk
    disk,                   \* the frame files on disk, each with the run that wrote it
    removedInProgress       \* files a run lost to the cleanup of another run (history)

\* one run of concat.js
VARIABLES
    concatPc,               \* the position of concat.js
    videoType,              \* process.argv[3]
    ffprobeStdout,          \* what ffprobe prints for the width of inputVideo
    resWidth,               \* processVideo's resWidth
    outroFile,              \* processVideo's outroFile
    diskFiles,              \* the outro, temporary and output files on disk
    vidList,                \* the content of VID_LIST_FILE
    outputFileName,         \* the output name handed to the concat command
    concatExit,             \* the exit status of concat.js, -1 while it runs
    concatComplete          \* "Processing complete." has been logged by concat.js

\* extractSceneTimestampsFromShowinfo applied on its own
VARIABLES
    showinfoPc,             \* the position of the call
    showinfoStderr,         \* the lines of the diagnostic stream
    showinfoResult          \* the timestamps the call returned

\* the even division of extractStills and the segment durations of
\* createPanningVideo applied on their own
VARIABLES
    evenPc,                 \* the position of the computation
    evenDuration,           \* videoInfo.duration
    evenCount,              \* frameFiles.length
    evenTimestamps,         \* the fallback timestamps
    evenDurations           \* the duration of each segment

pipelineVars ==
    <<pc, asset, videoInfo, tempDir, stills, timestamps, usedRegularIntervals, frameFiles,
      finalTimestamps, plan, renderCmd, outputFile, cleanupCalls, exitCode, completeLogged,
      trace>>

runVars == <<now, runPc, runTempDir, dirs, disk, removedInProgress>>

concatVars ==
    <<concatPc, videoType, ffprobeStdout, resWidth, outroFile, diskFiles, vidList,
      outputFileName, concatExit, concatComplete>>

showinfoVars == <<showinfoPc, showinfoStderr, showinfoResult>>

evenVars == <<evenPc, evenDuration, evenCount, evenTimestamps, evenDurations>>

vars == <<pipelineVars, runVars, concatVars, showinfoVars, evenVars>>

\* history: which passes ran and how they ended, the listing after each
\* frame pass, the files unlinked, where the timestamps came from, and the
\* stage whose failure ended the run
NoTrace ==
    [sceneRan       |-> FALSE,  \* the scene-detection frame pass completed
     sceneListed    |-> <<>>,   \* frameFiles after the scene-detection pass
     showinfoRan    |-> FALSE,  \* the showinfo pass completed
     showinfoThrew  |-> FALSE,  \* the showinfo pass raised, caught at line 121
     unlinked       |-> {},     \* the files removed at lines 142-144
     fixedRan       |-> FALSE,  \* the fixed-interval pass completed
     fixedListed    |-> {},     \* the directory right after the fixed-interval pass
     tsSource       |-> "none", \* "showinfo" or "even"
     returned       |-> FALSE,  \* extractStills returned
     gftCalled      |-> FALSE,  \* getFrameTimestamps was called
     gftBranch      |-> "none", \* the branch getFrameTimestamps took
     rendererCalled |-> FALSE,  \* the render command was handed to safeExec
     audioDone      |-> FALSE,  \* the audio extraction completed
     muxDone        |-> FALSE,  \* the mux completed
     removeFailed   |-> FALSE,  \* cleanup could not remove TEMP_DIR
     failedStage    |-> "none"]

\* no concurrent runs are under consideration
RunsIdle ==
    /\ now = 0
    /\ runPc = [r \in Runs |-> "notStarted"]
    /\ runTempDir = [r \in Runs |-> NoDir]
    /\ dirs = {}
    /\ disk = {}
    /\ removedInProgress = {}

\* concat.js is not run
ConcatIdle ==
    /\ concatPc = "idle"
    /\ videoType = "F"
    /\ ffprobeStdout = <<>>
    /\ resWidth = <<>>
    /\ outroFile = NoFile
    /\ diskFiles = {}
    /\ vidList = <<>>
    /\ outputFileName = NoFile
    /\ concatExit = -1
    /\ concatComplete = FALSE

\* the extractor is not applied on its own
ShowinfoIdle ==
    /\ showinfoPc = "idle"
    /\ showinfoStderr = <<>>
    /\ showinfoResult = <<>>

\* the even division is not applied on its own
EvenIdle ==
    /\ evenPc = "idle"
    /\ evenDuration = NaNDouble
    /\ evenCount = 0
    /\ evenTimestamps = <<>>
    /\ evenDurations = <<>>

\* the variables of processVideo before anything ran
PipelineStart ==
    /\ videoInfo = NoInfo
    /\ tempDir = FALSE
    /\ stills = {}
    /\ timestamps = <<>>
    /\ usedRegularIntervals = FALSE
    /\ frameFiles = <<>>
    /\ finalTimestamps = <<>>
    /\ plan = NoPlan
    /\ renderCmd = NoCommand
    /\ outputFile = FALSE
    /\ cleanupCalls = 0
    /\ exitCode = -1
    /\ completeLogged = FALSE
    /\ trace = NoTrace

\* shortify.js is not run as a single pipeline
PipelineIdle ==
    /\ pc = "idle"
    /\ asset = NoInfo
    /\ PipelineStart

Init ==
    /\ pc = "getVideoInfo"
    /\ asset \in Assets
    /\ RunsIdle
    /\ ConcatIdle
    /\ ShowinfoIdle
    /\ EvenIdle
    /\ videoInfo = NoInfo
    /\ tempDir = FALSE
    /\ stills = {}
    /\ timestamps = <<>>
    /\ usedRegularIntervals = FALSE
    /\ frameFiles = <<>>
    /\ finalTimestamps = <<>>
    /\ plan = NoPlan
    /\ renderCmd = NoCommand
    /\ outputFile = FALSE
    /\ cleanupCalls = 0
    /\ exitCode = -1
    /\ completeLogged = FALSE
    /\ trace = NoTrace

----------------------------------------------------------------------------
(* safeExec and cleanup *)

\* safeExec logging the error and returning to its caller, which goes on
\* with its next step
SafeExecFailed_Swallowed(stage) ==
    /\ pc' = CASE stage = "sceneDetection" -> "showinfo"
              [] stage = "fixedInterval" -> "evenTimestamps"
              [] stage = "extractAudio" -> "combineAudio"
              [] stage = "combineAudio" -> "cleanup"
    /\ trace' = [trace EXCEPT !.failedStage = stage]
    /\ UNCHANGED <<exitCode, cleanupCalls>>

\* safeExec ending the process with status 0
SafeExecFailed_ExitZero(stage) ==
    /\ pc' = "exited"
    /\ exitCode' = 0
    /\ trace' = [trace EXCEPT !.failedStage = stage]
    /\ UNCHANGED cleanupCalls

\* safeExec's catch: console.error, then process.exit(1).  The process ends
\* there: no catch or cleanup of a caller runs.
SafeExecFailed(stage) ==
    /\ pc' = "exited"
    /\ exitCode' = 1
    /\ trace' = [trace EXCEPT !.failedStage = stage]
    /\ UNCHANGED cleanupCalls

\* an exception that reaches the catch of processVideo
Thrown(stage) ==
    /\ pc' = "catch"
    /\ trace' = [trace EXCEPT !.failedStage = stage]
    /\ UNCHANGED <<exitCode, cleanupCalls>>

\* cleanup that deletes nothing
Cleanup_Skipped(removed, next) ==
    /\ pc' = next
    /\ UNCHANGED <<cleanupCalls, tempDir, stills, trace>>

\* cleanup that lets the error of the removal escape to the catch of processVideo
Cleanup_Rethrows(removed, next) ==
    /\ cleanupCalls' = cleanupCalls + 1
    /\ tempDir' = (tempDir /\ ~removed)
    /\ stills' = IF tempDir /\ removed THEN {} ELSE stills
    /\ trace' = [trace EXCEPT !.removeFailed = tempDir /\ ~removed]
    /\ pc' = IF tempDir /\ ~removed THEN "catch" ELSE next

\* cleanup([TEMP_DIR]): removes the directory when it exists; an error of
\* the removal is logged and swallowed, and the caller goes on at next
Cleanup(removed, next) ==
    /\ cleanupCalls' = cleanupCalls + 1
    /\ tempDir' = (tempDir /\ ~removed)
    /\ stills' = IF tempDir /\ removed THEN {} ELSE stills
    /\ trace' = [trace EXCEPT !.removeFailed = tempDir /\ ~removed]
    /\ pc' = next

----------------------------------------------------------------------------
(* The steps of processVideo *)

\* line 334: const videoInfo = await getVideoInfo(inputVideo)
GetVideoInfo ==
    /\ pc = "getVideoInfo"
    /\ UNCHANGED <<runVars, concatVars, showinfoVars, evenVars>>
    /\ \/ /\ videoInfo' = asset
          /\ pc' = "sceneDetection"
          /\ UNCHANGED <<trace, exitCode, cleanupCalls>>
       \/ /\ Thrown("probe")
          /\ UNCHANGED videoInfo
    /\ UNCHANGED <<asset, tempDir, stills, timestamps, usedRegularIntervals, frameFiles,
                   finalTimestamps, plan, renderCmd, outputFile, completeLogged>>

\* lines 97-111: mkdir, then the scene-detection frame pass under safeExec
SceneDetectionPass ==
    /\ pc = "sceneDetection"
    /\ UNCHANGED <<runVars, concatVars, showinfoVars, evenVars>>
    /\ tempDir' = TRUE
    /\ \/ \E k \in FrameCounts :
            /\ stills' = SceneFiles(k)
            /\ pc' = "showinfo"
            /\ trace' = [trace EXCEPT !.sceneRan = TRUE]
            /\ UNCHANGED <<exitCode, cleanupCalls>>
       \/ /\ SafeExecFailed("sceneDetection")
          /\ UNCHANGED stills
    /\ UNCHANGED <<asset, videoInfo, timestamps, usedRegularIntervals, frameFiles,
                   finalTimestamps, plan, renderCmd, outputFile, completeLogged>>

\* lines 113-124: the showinfo pass; its error is caught inside extractStills
ShowinfoPass ==
    /\ pc = "showinfo"
    /\ UNCHANGED <<runVars, concatVars, showinfoVars, evenVars>>
    /\ pc' = "listFrames"
    /\ \/ \E stderr \in Stderrs :
            LET sceneTimestamps == extractSceneTimestampsFromShowinfo(stderr)
            IN  /\ timestamps' = IF Len(sceneTimestamps) > 0 THEN sceneTimestamps ELSE timestamps
                /\ trace' = [trace EXCEPT !.showinfoRan = TRUE,
                                          !.tsSource = IF Len(sceneTimestamps) > 0
                                                       THEN "showinfo" ELSE "none"]
                /\ UNCHANGED usedRegularIntervals
       \/ /\ usedRegularIntervals' = TRUE
          /\ trace' = [trace EXCEPT !.showinfoThrew = TRUE]
          /\ UNCHANGED timestamps
    /\ UNCHANGED <<asset, videoInfo, tempDir, stills, frameFiles, finalTimestamps, plan,
                   renderCmd, outputFile, cleanupCalls, exitCode, completeLogged>>

\* lines 127-144: list and sort the frames; with too few of them, mark the
\* fallback and unlink them
ListFrames ==
    /\ pc = "listFrames"
    /\ UNCHANGED <<runVars, concatVars, showinfoVars, evenVars>>
    /\ \E files \in Listings(stills) :
         LET listed == SortFrames(files)
         IN  /\ frameFiles' = listed
             /\ IF TooFewFrames(listed)
                THEN /\ usedRegularIntervals' = TRUE
                     /\ stills' = stills \ Range(listed)
                     /\ trace' = [trace EXCEPT !.sceneListed = listed, !.unlinked = Range(listed)]
                     /\ pc' = "fixedInterval"
                ELSE /\ trace' = [trace EXCEPT !.sceneListed = listed]
                     /\ pc' = "evenTimestamps"
                     /\ UNCHANGED <<usedRegularIntervals, stills>>
    /\ UNCHANGED <<asset, videoInfo, tempDir, timestamps, finalTimestamps, plan, renderCmd,
                   outputFile, cleanupCalls, exitCode, completeLogged>>

\* lines 147-160: the fixed-interval frame pass under safeExec, then the new listing
FixedIntervalPass ==
    /\ pc = "fixedInterval"
    /\ UNCHANGED <<runVars, concatVars, showinfoVars, evenVars>>
    /\ \/ \E m \in FrameCounts :
            /\ stills' = stills \cup FixedFiles(m)
            /\ \E files \in Listings(stills') : frameFiles' = SortFrames(files)
            /\ pc' = "evenTimestamps"
            /\ trace' = [trace EXCEPT !.fixedRan = TRUE, !.fixedListed = stills']
            /\ UNCHANGED <<exitCode, cleanupCalls>>
       \/ /\ SafeExecFailed("fixedInterval")
          /\ UNCHANGED <<stills, frameFiles>>
    /\ UNCHANGED <<asset, videoInfo, tempDir, timestamps, usedRegularIntervals,
                   finalTimestamps, plan, renderCmd, outputFile, completeLogged>>

\* lines 163-172: the even distribution when no timestamps were captured,
\* then the return of extractStills
EvenDistribution ==
    /\ pc = "evenTimestamps"
    /\ UNCHANGED <<runVars, concatVars, showinfoVars, evenVars>>
    /\ IF NeedsEvenTimestamps(timestamps, frameFiles)
       THEN \/ /\ timestamps' = EvenTimestamps(asset.duration, Len(frameFiles))
               /\ pc' = "finalTimestamps"
               /\ trace' = [trace EXCEPT !.tsSource = "even", !.returned = TRUE]
               /\ UNCHANGED <<exitCode, cleanupCalls>>
            \/ /\ Thrown("probe")
               /\ UNCHANGED timestamps
       ELSE /\ pc' = "finalTimestamps"
            /\ trace' = [trace EXCEPT !.returned = TRUE]
            /\ UNCHANGED <<timestamps, exitCode, cleanupCalls>>
    /\ UNCHANGED <<asset, videoInfo, tempDir, stills, usedRegularIntervals, frameFiles,
                   finalTimestamps, plan, renderCmd, outputFile, completeLogged>>

\* lines 341-344: finalTimestamps, from getFrameTimestamps when none came back
FinalTimestamps ==
    /\ pc = "finalTimestamps"
    /\ UNCHANGED <<runVars, concatVars, showinfoVars, evenVars>>
    /\ IF Len(timestamps) = 0
       THEN \/ \E failed \in BOOLEAN :
                 /\ finalTimestamps' =
                        getFrameTimestamps(asset, Len(frameFiles), usedRegularIntervals, failed)
                 /\ pc' = "createPanningVideo"
                 /\ trace' = [trace EXCEPT !.gftCalled = TRUE,
                                           !.gftBranch = IF usedRegularIntervals
                                                         THEN "regular" ELSE "scene"]
                 /\ UNCHANGED <<exitCode, cleanupCalls>>
            \/ /\ Thrown("probe")
               /\ UNCHANGED finalTimestamps
       ELSE /\ finalTimestamps' = timestamps
            /\ pc' = "createPanningVideo"
            /\ UNCHANGED <<trace, exitCode, cleanupCalls>>
    /\ UNCHANGED <<asset, videoInfo, tempDir, stills, timestamps, usedRegularIntervals,
                   frameFiles, plan, renderCmd, outputFile, completeLogged>>

\* lines 228-290: the geometry, the filter graph, and the render under safeExec
CreatePanningVideo ==
    /\ pc = "createPanningVideo"
    /\ UNCHANGED <<runVars, concatVars, showinfoVars, evenVars>>
    /\ plan' = GeometryPlans[videoInfo.width, videoInfo.height]
    /\ renderCmd' = RenderCommand(frameFiles, finalTimestamps, videoInfo, plan')
    /\ \/ /\ pc' = "extractAudio"
          /\ trace' = [trace EXCEPT !.rendererCalled = TRUE]
          /\ UNCHANGED <<exitCode, cleanupCalls>>
       \/ /\ pc' = "exited"
          /\ exitCode' = 1
          /\ trace' = [trace EXCEPT !.rendererCalled = TRUE, !.failedStage = "render"]
          /\ UNCHANGED cleanupCalls
    /\ UNCHANGED <<asset, videoInfo, tempDir, stills, timestamps, usedRegularIntervals,
                   frameFiles, finalTimestamps, outputFile, completeLogged>>

\* lines 295-299: the audio extraction under safeExec
ExtractAudio ==
    /\ pc = "extractAudio"
    /\ UNCHANGED <<runVars, concatVars, showinfoVars, evenVars>>
    /\ \/ /\ pc' = "combineAudio"
          /\ trace' = [trace EXCEPT !.audioDone = TRUE]
          /\ UNCHANGED <<exitCode, cleanupCalls>>
       \/ SafeExecFailed("extractAudio")
    /\ UNCHANGED <<asset, videoInfo, tempDir, stills, timestamps, usedRegularIntervals,
                   frameFiles, finalTimestamps, plan, renderCmd, outputFile, completeLogged>>

\* lines 302-305: the mux under safeExec, which writes OUTPUT_FILE
CombineAudio ==
    /\ pc = "combineAudio"
    /\ UNCHANGED <<runVars, concatVars, showinfoVars, evenVars>>
    /\ \/ /\ pc' = "cleanup"
          /\ outputFile' = TRUE
          /\ trace' = [trace EXCEPT !.muxDone = TRUE]
          /\ UNCHANGED <<exitCode, cleanupCalls>>
       \/ /\ SafeExecFailed("combineAudio")
          /\ UNCHANGED outputFile
    /\ UNCHANGED <<asset, videoInfo, tempDir, stills, timestamps, usedRegularIntervals,
                   frameFiles, finalTimestamps, plan, renderCmd, completeLogged>>

\* line 354: await cleanup([TEMP_DIR]) on the success path
CleanupOnSuccess ==
    /\ pc = "cleanup"
    /\ UNCHANGED <<runVars, concatVars, showinfoVars, evenVars>>
    /\ \E removed \in BOOLEAN : Cleanup(removed, "complete")
    /\ UNCHANGED <<asset, videoInfo, timestamps, usedRegularIntervals, frameFiles,
                   finalTimestamps, plan, renderCmd, outputFile, exitCode, completeLogged>>

\* lines 356-357: "Processing complete.", and the process ends with status 0
ReportComplete ==
    /\ pc = "complete"
    /\ UNCHANGED <<runVars, concatVars, showinfoVars, evenVars>>
    /\ completeLogged' = TRUE
    /\ exitCode' = 0
    /\ pc' = "exited"
    /\ UNCHANGED <<asset, videoInfo, tempDir, stills, timestamps, usedRegularIntervals,
                   frameFiles, finalTimestamps, plan, renderCmd, outputFile, cleanupCalls,
                   trace>>

\* lines 359-368: the catch of processVideo: cleanup, then process.exit(1)
CatchCleanup ==
    /\ pc = "catch"
    /\ UNCHANGED <<runVars, concatVars, showinfoVars, evenVars>>
    /\ \E removed \in BOOLEAN : Cleanup(removed, "exited")
    /\ exitCode' = 1
    /\ UNCHANGED <<asset, videoInfo, timestamps, usedRegularIntervals, frameFiles,
                   finalTimestamps, plan, renderCmd, outputFile, completeLogged>>

Next ==
    \/ GetVideoInfo
    \/ SceneDetectionPass
    \/ ShowinfoPass
    \/ ListFrames
    \/ FixedIntervalPass
    \/ EvenDistribution
    \/ FinalTimestamps
    \/ CreatePanningVideo
    \/ ExtractAudio
    \/ CombineAudio
    \/ CleanupOnSuccess
    \/ ReportComplete
    \/ CatchCleanup

Spec == Init /\ [][Next]_vars

----------------------------------------------------------------------------
(* Several runs of shortify.js started in one working directory *)

\* the millisecond clock advances
Tick ==
    /\ now < MaxClock
    /\ now' = now + 1
    /\ UNCHANGED <<runPc, runTempDir, dirs, disk, removedInProgress>>
    /\ UNCHANGED <<pipelineVars, concatVars, showinfoVars, evenVars>>

\* node loads the script: TEMP_DIR is named after the clock
LoadScript(r) ==
    /\ runPc[r] = "notStarted"
    /\ runTempDir' = [runTempDir EXCEPT ![r] = TEMP_DIR(now)]
    /\ runPc' = [runPc EXCEPT ![r] = "extractStills"]
    /\ UNCHANGED <<now, dirs, disk, removedInProgress>>
    /\ UNCHANGED <<pipelineVars, concatVars, showinfoVars, evenVars>>

\* extractStills: mkdir with recursive: true accepts a directory that is
\* there; ffmpeg then writes the frames, or fails and safeExec ends the run
ExtractFrames(r) ==
    /\ runPc[r] = "extractStills"
    /\ dirs' = dirs \cup {runTempDir[r]}
    /\ \/ \E k \in 1..RunFrames :
            /\ disk' = WriteFrames(disk, runTempDir[r], k, r)
            /\ runPc' = [runPc EXCEPT ![r] = "rendering"]
       \/ /\ runPc' = [runPc EXCEPT ![r] = "exited"]
          /\ UNCHANGED disk
    /\ UNCHANGED <<now, runTempDir, removedInProgress>>
    /\ UNCHANGED <<pipelineVars, concatVars, showinfoVars, evenVars>>

\* cleanup([TEMP_DIR]) at the end of a run: rm with recursive: true removes
\* the directory and all that is in it; its error is swallowed
CleanupRun(r) ==
    /\ runPc[r] = "rendering"
    /\ runPc' = [runPc EXCEPT ![r] = "exited"]
    /\ \E removed \in BOOLEAN :
         IF removed /\ runTempDir[r] \in dirs
         THEN /\ dirs' = dirs \ {runTempDir[r]}
              /\ disk' = disk \ FilesIn(disk, runTempDir[r])
              /\ removedInProgress' =
                     removedInProgress \cup
                         {f \in FilesIn(disk, runTempDir[r]) :
                              f.owner # r /\ runPc[f.owner] = "rendering"}
         ELSE UNCHANGED <<dirs, disk, removedInProgress>>
    /\ UNCHANGED <<now, runTempDir>>
    /\ UNCHANGED <<pipelineVars, concatVars, showinfoVars, evenVars>>

RunsInit ==
    /\ RunsIdle
    /\ PipelineIdle
    /\ ConcatIdle
    /\ ShowinfoIdle
    /\ EvenIdle

RunsNext ==
    \/ Tick
    \/ \E r \in Runs : LoadScript(r)
    \/ \E r \in Runs : ExtractFrames(r)
    \/ \E r \in Runs : CleanupRun(r)

SpecRuns == RunsInit /\ [][RunsNext]_vars

----------------------------------------------------------------------------
(* concat.js *)

\* process.exit(1)
ConcatExit(status) ==
    /\ concatPc' = "exited"
    /\ concatExit' = status

\* the catch of processVideo logs the error; the script then ends with status 0
ConcatCaught == ConcatExit(0)

\* lines 25-29: the arguments
ValidateArguments ==
    /\ concatPc = "validate"
    /\ IF videoType \notin VideoTypes THEN ConcatExit(1)
       ELSE concatPc' = "getVideoWidth" /\ UNCHANGED concatExit
    /\ UNCHANGED <<videoType, ffprobeStdout, resWidth, outroFile, diskFiles, vidList,
                   outputFileName, concatComplete>>
    /\ UNCHANGED <<pipelineVars, runVars, showinfoVars, evenVars>>

\* getVideoWidth: the trimmed output of ffprobe, or its error thrown
GetVideoWidth ==
    /\ concatPc = "getVideoWidth"
    /\ \/ /\ resWidth' = Trim(ffprobeStdout)
          /\ concatPc' = "getOutroFile"
          /\ UNCHANGED concatExit
       \/ /\ ConcatCaught
          /\ UNCHANGED resWidth
    /\ UNCHANGED <<videoType, ffprobeStdout, outroFile, diskFiles, vidList, outputFileName,
                   concatComplete>>
    /\ UNCHANGED <<pipelineVars, runVars, showinfoVars, evenVars>>

\* getOutroFile: the file by width and type; a missing sites outro ends the run
GetOutroFile ==
    /\ concatPc = "getOutroFile"
    /\ LET selectedFile == getOutroFile(resWidth, videoType)
       IN  IF videoType = "S" /\ selectedFile \notin diskFiles
           THEN ConcatExit(1) /\ UNCHANGED outroFile
           ELSE /\ outroFile' = selectedFile
                /\ concatPc' = "increaseFramerate"
                /\ UNCHANGED concatExit
    /\ UNCHANGED <<videoType, ffprobeStdout, resWidth, diskFiles, vidList, outputFileName,
                   concatComplete>>
    /\ UNCHANGED <<pipelineVars, runVars, showinfoVars, evenVars>>

\* increaseFramerate: the spawned ffmpeg writes TEMP_VIDEO, or the promise is
\* rejected and caught by processVideo
IncreaseFramerate ==
    /\ concatPc = "increaseFramerate"
    /\ \/ /\ diskFiles' = diskFiles \cup {TEMP_VIDEO}
          /\ concatPc' = "addSilence"
          /\ UNCHANGED concatExit
       \/ /\ ConcatCaught
          /\ \E partial \in BOOLEAN :
               diskFiles' = IF partial THEN diskFiles \cup {TEMP_VIDEO} ELSE diskFiles
    /\ UNCHANGED <<videoType, ffprobeStdout, resWidth, outroFile, vidList, outputFileName,
                   concatComplete>>
    /\ UNCHANGED <<pipelineVars, runVars, showinfoVars, evenVars>>

\* addSilenceToMatchDuration under safeExec
AddSilenceToMatchDuration ==
    /\ concatPc = "addSilence"
    /\ \/ /\ diskFiles' = diskFiles \cup {TEMP_VIDEO_WITH_SILENCE}
          /\ concatPc' = "generateVidList"
          /\ UNCHANGED concatExit
       \/ /\ ConcatExit(1)
          /\ UNCHANGED diskFiles
    /\ UNCHANGED <<videoType, ffprobeStdout, resWidth, outroFile, vidList, outputFileName,
                   concatComplete>>
    /\ UNCHANGED <<pipelineVars, runVars, showinfoVars, evenVars>>

\* generateVidList writes VID_LIST_FILE
GenerateVidList ==
    /\ concatPc = "generateVidList"
    /\ vidList' = VidListContent(outroFile)
    /\ diskFiles' = diskFiles \cup {VID_LIST_FILE}
    /\ concatPc' = "concatenateVideo"
    /\ UNCHANGED <<videoType, ffprobeStdout, resWidth, outroFile, outputFileName, concatExit,
                   concatComplete>>
    /\ UNCHANGED <<pipelineVars, runVars, showinfoVars, evenVars>>

\* concatenateVideo: the concat of VID_LIST_FILE into the file named by the
\* type, under safeExec
ConcatenateVideo ==
    /\ concatPc = "concatenateVideo"
    /\ outputFileName' = OutputFileNames(videoType)
    /\ \/ /\ diskFiles' = diskFiles \cup {outputFileName'}
          /\ concatPc' = "cleanup"
          /\ UNCHANGED concatExit
       \/ /\ ConcatExit(1)
          /\ UNCHANGED diskFiles
    /\ UNCHANGED <<videoType, ffprobeStdout, resWidth, outroFile, vidList, concatComplete>>
    /\ UNCHANGED <<pipelineVars, runVars, showinfoVars, evenVars>>

\* cleanup of the three temporary files, each unlink's error swallowed, then
\* "Processing complete."
ConcatCleanup ==
    /\ concatPc = "cleanup"
    /\ \E deleted \in SUBSET {TEMP_VIDEO, TEMP_VIDEO_WITH_SILENCE, VID_LIST_FILE} :
         diskFiles' = diskFiles \ deleted
    /\ concatComplete' = TRUE
    /\ ConcatExit(0)
    /\ UNCHANGED <<videoType, ffprobeStdout, resWidth, outroFile, vidList, outputFileName>>
    /\ UNCHANGED <<pipelineVars, runVars, showinfoVars, evenVars>>

ConcatInit ==
    /\ concatPc = "validate"
    /\ videoType \in ArgTypes
    /\ ffprobeStdout \in Stdouts
    /\ diskFiles \in SUBSET {OUTPUT_4K_SITES, OUTPUT_1080P_SITES}
    /\ resWidth = <<>>
    /\ outroFile = NoFile
    /\ vidList = <<>>
    /\ outputFileName = NoFile
    /\ concatExit = -1
    /\ concatComplete = FALSE
    /\ RunsIdle
    /\ PipelineIdle
    /\ ShowinfoIdle
    /\ EvenIdle

ConcatNext ==
    \/ ValidateArguments
    \/ GetVideoWidth
    \/ GetOutroFile
    \/ IncreaseFramerate
    \/ AddSilenceToMatchDuration
    \/ GenerateVidList
    \/ ConcatenateVideo
    \/ ConcatCleanup

SpecConcat == ConcatInit /\ [][ConcatNext]_vars

----------------------------------------------------------------------------
(* extractSceneTimestampsFromShowinfo as a function of the diagnostic       *)
(* stream: the call either returns the timestamps it parsed or raises what  *)
(* execPromise raised.                                                      *)

\* lines 33-45: ffmpeg ran, stderr is split and scanned
ShowinfoReturns ==
    /\ showinfoPc = "call"
    /\ showinfoPc' = "returned"
    /\ showinfoResult' = extractSceneTimestampsFromShowinfo(showinfoStderr)
    /\ UNCHANGED <<showinfoStderr, pipelineVars, runVars, concatVars, evenVars>>

\* line 34: execPromise rejects, nothing is parsed
ShowinfoThrows ==
    /\ showinfoPc = "call"
    /\ showinfoPc' = "threw"
    /\ UNCHANGED <<showinfoStderr, showinfoResult, pipelineVars, runVars, concatVars,
                   evenVars>>

ShowinfoInit ==
    /\ showinfoPc = "call"
    /\ showinfoStderr \in ShowinfoStderrs
    /\ showinfoResult = <<>>
    /\ PipelineIdle
    /\ RunsIdle
    /\ ConcatIdle
    /\ EvenIdle

ShowinfoNext ==
    \/ ShowinfoReturns
    \/ ShowinfoThrows

SpecShowinfo == ShowinfoInit /\ [][ShowinfoNext]_vars

----------------------------------------------------------------------------
(* The even division of extractStills (lines 164-167) and the segment       *)
(* durations of createPanningVideo (lines 262-271) as functions of the      *)
(* duration and the frame count, in the doubles JavaScript computes them    *)
(* in.  (The pipeline above keeps times as exact rationals: none of its     *)
(* branches depends on how a time is rounded.)                              *)

\* the durations ffprobe reports: 0.5, 4, 10, 10.5 and 10.03 seconds
EvenDurations ==
    {DoubleDiv(1, 2), DoubleDiv(4, 1), DoubleDiv(10, 1), DoubleDiv(21, 2), DoubleDiv(1003, 100)}

\* the even division with the index counted from one
FallbackTimestamps_OneBased(duration, count) ==
    LET interval == DoubleDivInt(duration, count)
    IN  [i \in 1..count |-> DoubleTimes(i, interval)]

\* "interval = videoInfo.duration / frameFiles.length" and
\* "Array.from({ length: frameFiles.length }, (_, i) => i * interval)"
FallbackTimestamps(duration, count) ==
    LET interval == DoubleDivInt(duration, count)
    IN  [i \in 1..count |-> DoubleTimes(i - 1, interval)]

\* the duration of frame i (0-based): up to the next timestamp, and for the
\* last frame up to the end of the video
SegmentLength(i, ts, duration) ==
    IF i < Len(ts) - 1
    THEN DoubleMinus(ts[i + 2], ts[i + 1])
    ELSE DoubleMinus(duration, ts[i + 1])

\* lines 164-167: the fallback timestamps
EvenDivide ==
    /\ evenPc = "divide"
    /\ evenPc' = "segments"
    /\ evenTimestamps' = FallbackTimestamps(evenDuration, evenCount)
    /\ UNCHANGED <<evenDuration, evenCount, evenDurations, pipelineVars, runVars,
                   concatVars, showinfoVars>>

\* lines 262-271: one turn of the loop over the frames
SegmentStep ==
    /\ evenPc = "segments"
    /\ LET i == Len(evenDurations)
       IN  /\ evenDurations' =
                 Append(evenDurations, SegmentLength(i, evenTimestamps, evenDuration))
           /\ evenPc' = IF i + 1 = evenCount THEN "done" ELSE "segments"
    /\ UNCHANGED <<evenDuration, evenCount, evenTimestamps, pipelineVars, runVars,
                   concatVars, showinfoVars>>

EvenInit ==
    /\ evenPc = "divide"
    /\ evenDuration \in EvenDurations
    /\ evenCount \in 1..MaxSegments
    /\ evenTimestamps = <<>>
    /\ evenDurations = <<>>
    /\ PipelineIdle
    /\ RunsIdle
    /\ ConcatIdle
    /\ ShowinfoIdle

EvenNext ==
    \/ EvenDivide
    \/ SegmentStep

SpecEven == EvenInit /\ [][EvenNext]_vars

----------------------------------------------------------------------------
(* Properties *)

\* numeric equality of JavaScript: NaN equals nothing
NumEq(a, b) == ~a.nan /\ ~b.nan /\ a = b

Add(a, b) == IF a.nan \/ b.nan THEN NaN ELSE R(a.n * b.d + b.n * a.d, a.d * b.d)

RECURSIVE Sum(_)
Sum(s) == IF s = <<>> THEN Int2Num(0) ELSE Add(Head(s), Sum(Tail(s)))

Positive(a) == ~a.nan /\ a.n > 0

\* the durations handed to the renderer, one per "-loop 1 -t <duration> -i" input
RenderedDurations == [k \in 1..Len(renderCmd.inputs) |-> renderCmd.inputs[k].t]

\* the scene-detection listing has been taken
SceneListingTaken == trace.sceneRan /\ pc \notin {"showinfo", "listFrames"}

\* C1: whenever extractStills has returned, the number of returned frame
\* files equals the number of returned timestamps.
C1_FramesMatchTimestamps ==
    trace.returned => Len(frameFiles) = Len(timestamps)

\* C2: when the process has ended, cleanup of TEMP_DIR has been executed
\* exactly once, on the success path and on every failure path.
C2_TeardownExactlyOnce ==
    pc = "exited" => cleanupCalls = 1

\* C3: a failure of the scene-detection frame pass does not end the run; of
\* the two frame passes only the fixed-interval one can end it.
C3_SceneFailureNotFatal ==
    (pc = "exited" /\ trace.failedStage \in {"sceneDetection", "fixedInterval"})
        => trace.failedStage = "fixedInterval"

\* C4: in every result extractStills returns with frames, usedRegularIntervals
\* is true exactly when the frames come from the fixed-interval pass and the
\* timestamps from even division; scene-detected frames are never paired with
\* even-division timestamps, nor fixed-interval frames with showinfo timestamps.
C4_FallbackFlagConsistent ==
    (trace.returned /\ Len(frameFiles) > 0) =>
        /\ usedRegularIntervals <=> (trace.fixedRan /\ trace.tsSource = "even")
        /\ ~(~trace.fixedRan /\ trace.tsSource = "even")
        /\ ~(trace.fixedRan /\ trace.tsSource = "showinfo")

\* C5: with fewer than 2 frame files after the scene-detection pass,
\* extractStills unlinks exactly those files, sets usedRegularIntervals and
\* runs the fixed-interval pass; the frames it returns are exactly the files
\* in the directory after that pass.
C5_DegenerateResultFallsBack ==
    (SceneListingTaken /\ Len(trace.sceneListed) < 2) =>
        /\ usedRegularIntervals
        /\ trace.unlinked = Range(trace.sceneListed)
        /\ pc = "fixedInterval" => stills \cap Range(trace.sceneListed) = {}
        /\ pc = "fixedInterval" \/ trace.failedStage = "fixedInterval" \/ trace.fixedRan
        /\ trace.returned =>
              /\ trace.fixedRan
              /\ Range(frameFiles) = trace.fixedListed
              /\ Len(frameFiles) = Cardinality(trace.fixedListed)

\* C5 witness: one scene-detected frame, then a fixed-interval pass of 2 or
\* more frames, and extractStills has returned them.
C5_Witness ==
    /\ trace.returned
    /\ Len(trace.sceneListed) = 1
    /\ trace.fixedRan
    /\ Len(frameFiles) >= 2

\* C6: every segment duration handed to the renderer is strictly positive (the
\* code raises no TimelineError, so nothing else can keep a zero, negative or
\* NaN duration from the renderer).
C6_RenderedDurationsPositive ==
    trace.rendererCalled => \A k \in 1..Len(RenderedDurations) : Positive(RenderedDurations[k])

\* C7: for every extraction result that reaches createPanningVideo the
\* segments are contiguous (segment k ends where segment k+1 starts) and their
\* durations sum to the probed duration.
C7_DurationsSumToDuration ==
    trace.rendererCalled =>
        /\ NumEq(Sum(RenderedDurations), videoInfo.duration)
        /\ \A k \in 1..(Len(RenderedDurations) - 1) :
              NumEq(Add(At(finalTimestamps, k - 1), RenderedDurations[k]), At(finalTimestamps, k))

\* C8: the duration of frame i is timestamps[i+1] - timestamps[i] when i is not
\* the index of the last frame, and durationSeconds - timestamps[i] when it is,
\* also when the timestamp sequence is longer than the frame list.
C8_DurationByFrameIndex ==
    trace.rendererCalled =>
        \A i \in 0..(Len(frameFiles) - 1) :
            RenderedDurations[i + 1] =
                IF i # Len(frameFiles) - 1
                THEN Sub(At(finalTimestamps, i + 1), At(finalTimestamps, i))
                ELSE Sub(videoInfo.duration, At(finalTimestamps, i))

\* C9: the canvas depends on the source height alone: a height >= 2160 gives
\* 2160x3840, every other height (NaN included) gives 608x1080, and the filter
\* chains crop to that canvas.
C9_CanvasFromHeight ==
    trace.rendererCalled =>
        LET h == videoInfo.height
            big == ~h.nan /\ h.n >= 2160 * h.d
        IN  /\ big => plan.portraitWidth = 2160 /\ plan.portraitHeight = 3840
            /\ ~big => plan.portraitWidth = 608 /\ plan.portraitHeight = 1080
            /\ \A k \in 1..Len(renderCmd.chains) :
                  /\ renderCmd.chains[k].cropW = plan.portraitWidth
                  /\ renderCmd.chains[k].cropH = plan.portraitHeight
                  /\ renderCmd.chains[k].scaleH = plan.portraitHeight

\* C9 witness: a source 2160 lines high and only 500 wide has been given the
\* 2160x3840 canvas.
C9_Witness ==
    /\ trace.rendererCalled
    /\ videoInfo.height = Int2Num(2160)
    /\ videoInfo.width = Int2Num(500)
    /\ plan.portraitWidth = 2160
    /\ plan.portraitHeight = 3840

\* the nearest integer to w * portraitHeight / h, a half rounding up, in exact arithmetic
ExactScaledWidth(w, portraitHeight, h) == (2 * w * portraitHeight + h) \div (2 * h)

\* w * portraitHeight / h lies exactly halfway between two integers
ExactHalf(w, portraitHeight, h) ==
    (2 * w * portraitHeight) % h = 0 /\ ((2 * w * portraitHeight) \div h) % 2 = 1

\* C10 as stated: the geometry is a function of videoInfo's width and height
\* alone, scaledWidth = round(width * portraitHeight / height) and
\* panDistance = scaledWidth - portraitWidth (NaN when width or height is).
C10_ExactRounding ==
    trace.rendererCalled =>
        LET w == videoInfo.width
            h == videoInfo.height
        IN  IF w.nan \/ h.nan
            THEN plan.scaledWidth.nan /\ plan.panDistance.nan
            ELSE /\ plan.scaledWidth = Int2Num(ExactScaledWidth(w.n, plan.portraitHeight, h.n))
                 /\ plan.panDistance = Int2Num(plan.scaledWidth.n - plan.portraitWidth)

\* C10 amended: the geometry is a function of videoInfo's width and height
\* alone; scaledWidth is Math.round of width times the double
\* portraitHeight / height, which is round(width * portraitHeight / height)
\* except that an exact half may round down; panDistance = scaledWidth -
\* portraitWidth (NaN when width or height is).
C10_GeometryFromAssetInfo ==
    trace.rendererCalled =>
        LET w == videoInfo.width
            h == videoInfo.height
        IN  IF w.nan \/ h.nan
            THEN plan.scaledWidth.nan /\ plan.panDistance.nan
            ELSE /\ \/ plan.scaledWidth = Int2Num(ExactScaledWidth(w.n, plan.portraitHeight, h.n))
                    \/ /\ ExactHalf(w.n, plan.portraitHeight, h.n)
                       /\ plan.scaledWidth =
                              Int2Num(ExactScaledWidth(w.n, plan.portraitHeight, h.n) - 1)
                 /\ plan.panDistance = Int2Num(plan.scaledWidth.n - plan.portraitWidth)

\* C10 witness: 1550x992 scales to exactly 1687.5 in exact arithmetic and to
\* 1687.4999999999998 in doubles, so scaledWidth is 1687 and the pan 1687 - 608.
C10_Witness ==
    /\ trace.rendererCalled
    /\ videoInfo.width = Int2Num(1550)
    /\ videoInfo.height = Int2Num(992)
    /\ ExactScaledWidth(1550, 1080, 992) = 1688
    /\ plan.scaledWidth = Int2Num(1687)
    /\ plan.panDistance = Int2Num(1079)

\* C11 as stated: for every videoInfo with width > 0 and height > 0 the
\* panDistance of the geometry is >= 0.
C11_PanDistanceNonNegative ==
    (trace.rendererCalled /\ Positive(videoInfo.width) /\ Positive(videoInfo.height))
        => (~plan.panDistance.nan /\ plan.panDistance.n >= 0)

\* C11 amended: for every videoInfo with width > 0 and height > 0 the
\* panDistance is a number, and it is >= 0 exactly when scaledWidth is at
\* least the canvas width; a source that scales narrower than the canvas has
\* a negative panDistance.
C11_PanDistanceSign ==
    (trace.rendererCalled /\ Positive(videoInfo.width) /\ Positive(videoInfo.height))
        => /\ ~plan.panDistance.nan
           /\ ~plan.scaledWidth.nan
           /\ (plan.panDistance.n >= 0) = (plan.scaledWidth.n >= plan.portraitWidth)
           /\ (plan.panDistance.n < 0) = (plan.scaledWidth.n < plan.portraitWidth)

\* C11 witness: a 500x1080 source keeps its width of 500 on the 608x1080
\* canvas, and the renderer is given a panDistance of -108.
C11_Witness ==
    /\ trace.rendererCalled
    /\ videoInfo.width = Int2Num(500)
    /\ videoInfo.height = Int2Num(1080)
    /\ plan.scaledWidth = Int2Num(500)
    /\ plan.portraitWidth = 608
    /\ plan.panDistance = Int2Num(-108)

\* the run of scenario A: a 10-second 1920x1080 source, 3 scene-detected
\* frames kept, and the showinfo timestamps 0, 3, 7
ScenarioA ==
    /\ trace.rendererCalled
    /\ videoInfo = [width |-> Int2Num(1920), height |-> Int2Num(1080), duration |-> Int2Num(10)]
    /\ Len(trace.sceneListed) = 3
    /\ ~trace.fixedRan
    /\ trace.tsSource = "showinfo"
    /\ finalTimestamps = <<Int2Num(0), Int2Num(3), Int2Num(7)>>

\* C12: a 10-second 1920x1080 source with 3 scene-detected frames and the
\* timestamps 0, 3, 7 is rendered as exactly 3 segments of durations 3, 4, 3
\* in that order, on a 608x1080 canvas.
C12_ScenarioA ==
    ScenarioA =>
        /\ Len(renderCmd.inputs) = 3
        /\ Len(renderCmd.chains) = 3
        /\ RenderedDurations = <<Int2Num(3), Int2Num(4), Int2Num(3)>>
        /\ plan.portraitWidth = 608
        /\ plan.portraitHeight = 1080
        /\ \A k \in 1..3 : /\ renderCmd.chains[k].cropW = 608
                           /\ renderCmd.chains[k].cropH = 1080

\* C12 witness: scenario A has been rendered.
C12_Witness ==
    /\ ScenarioA
    /\ Len(frameFiles) = 3
    /\ RenderedDurations[3] = Int2Num(3)

\* C13: when the scene-detection pass yields only 1 frame, the fixed-interval
\* pass runs and extractStills returns evenly spaced timestamps, one per frame
\* of the fixed-interval listing.
C13_OneFrameFallsBackEvenly ==
    (trace.returned /\ Len(trace.sceneListed) = 1)
        => /\ trace.fixedRan
           /\ Len(timestamps) = Len(frameFiles)
           /\ timestamps = EvenTimestamps(asset.duration, Len(frameFiles))

\* C14: a stage after the probe is started only with a videoInfo whose width,
\* height and duration are all numeric and > 0; a non-numeric field ends the
\* run at the probe.
C14_ProbeValidated ==
    (pc \notin {"getVideoInfo", "catch", "exited"} \/ trace.sceneRan)
        => /\ Positive(videoInfo.width)
           /\ Positive(videoInfo.height)
           /\ Positive(videoInfo.duration)

\* C15 as stated: "Processing complete." is logged only when the audio has
\* been reattached and TEMP_DIR has been removed.
C15_SuccessAfterRemoval ==
    completeLogged => (trace.audioDone /\ trace.muxDone /\ ~tempDir)

\* C15 amended: "Processing complete." is logged only when the audio has been
\* reattached and cleanup of TEMP_DIR has run; TEMP_DIR is gone then unless
\* its removal failed, which cleanup logs and swallows.
C15_SuccessAfterCleanup ==
    completeLogged =>
        /\ trace.audioDone
        /\ trace.muxDone
        /\ outputFile
        /\ cleanupCalls = 1
        /\ tempDir = trace.removeFailed

\* C15 witness: success has been logged after the mux and the removal of TEMP_DIR.
C15_Witness ==
    /\ completeLogged
    /\ trace.muxDone
    /\ cleanupCalls = 1
    /\ ~tempDir

\* the stages whose failure is not recovered inside extractStills
PropagatingStages == {"probe", "fixedInterval", "render", "extractAudio", "combineAudio"}

\* C16: once the probe, the fixed-interval pass, the render, the audio
\* extraction or the mux has failed, the run is in its catch or has ended with
\* exit status 1, and "Processing complete." is never logged.
C16_FailureEndsNonZero ==
    trace.failedStage \in PropagatingStages =>
        /\ ~completeLogged
        /\ pc \in {"catch", "exited"}
        /\ pc = "exited" => exitCode = 1
        /\ pc = "catch" => exitCode = -1

\* C16 witness: a failed render has ended the run with exit status 1.
C16_Witness ==
    /\ pc = "exited"
    /\ trace.failedStage = "render"
    /\ exitCode = 1
    /\ ~completeLogged

\* C17: a failed removal of TEMP_DIR changes nothing else: a run without a
\* failure still logs "Processing complete." and ends with status 0, and a
\* failed run still ends with status 1 for the stage that failed.
C17_TeardownSwallowed ==
    trace.removeFailed =>
        /\ tempDir
        /\ cleanupCalls = 1
        /\ trace.failedStage \in {"none", "probe"}
        /\ trace.failedStage = "none" =>
               /\ pc \in {"complete", "exited"}
               /\ pc = "exited" => (completeLogged /\ exitCode = 0)
        /\ trace.failedStage = "probe" => (pc = "exited" /\ exitCode = 1 /\ ~completeLogged)

\* C17 witness: the removal failed on the success path, and the run logged
\* "Processing complete." and ended with status 0.
C17_Witness ==
    /\ trace.removeFailed
    /\ pc = "exited"
    /\ completeLogged
    /\ exitCode = 0
    /\ tempDir

\* the showinfo pass threw, or ran and matched no pts_time
TimestampPassFailed ==
    trace.showinfoThrew \/ (trace.showinfoRan /\ trace.tsSource # "showinfo")

\* C19: when the showinfo pass throws or yields no timestamp, the run goes
\* on to the frame listing, and with at least one frame in the final listing
\* extractStills returns the even division of the duration over that listing.
C19_TimestampFailureRecovered ==
    TimestampPassFailed =>
        /\ trace.failedStage \notin {"sceneDetection", "showinfo"}
        /\ (trace.returned /\ Len(frameFiles) > 0) =>
               /\ trace.tsSource = "even"
               /\ Len(timestamps) = Len(frameFiles)
               /\ \A i \in 1..Len(frameFiles) :
                      timestamps[i] =
                          Mul(Int2Num(i - 1), Div(asset.duration, Int2Num(Len(frameFiles))))

\* C19 witness: the showinfo pass threw, 2 or more scene frames were kept, and
\* extractStills returned their even division.
C19_Witness ==
    /\ trace.showinfoThrew
    /\ trace.returned
    /\ ~trace.fixedRan
    /\ Len(frameFiles) >= 2
    /\ trace.tsSource = "even"
    /\ Len(timestamps) = Len(frameFiles)

\* the runs whose script has been loaded
Started == {r \in Runs : runPc[r] # "notStarted"}

\* C18: no two runs use the same workspace directory, and the cleanup of one
\* run never removes a file of another run that is still in progress.
C18_WorkspaceExclusive ==
    /\ \A r1, r2 \in Started : r1 # r2 => runTempDir[r1] # runTempDir[r2]
    /\ removedInProgress = {}

\* the 4K and the 1080p outro of each type
Outro4K(type) ==
    CASE type = "F" -> "outros/fms_outro_30fps_44100ar_4k.mp4"
      [] type = "H" -> "outros/scorefol.io_outro_30fps_44100ar_4k.mp4"
      [] type = "S" -> "outros/sites_outro_30fps_44100ar_4k.mp4"

Outro1080p(type) ==
    CASE type = "F" -> "outros/fms_outro_30fps_44100ar.mp4"
      [] type = "H" -> "outros/scorefol.io_outro_30fps_44100ar.mp4"
      [] type = "S" -> "outros/sites_outro_30fps_44100ar.mp4"

\* C20: in concat.js, for each of the types F, H, S and every probed width,
\* the outro chosen is the 4K outro of the type exactly when the width is
\* "3840" and the 1080p outro of the type otherwise, and the output name is
\* "_fms.mp4", "_scorefolioHighlight.mp4" or "_sites.mp4" by the type alone.
C20_OutroByWidthAndType ==
    /\ outroFile # NoFile =>
           /\ videoType \in {"F", "H", "S"}
           /\ resWidth = Trim(ffprobeStdout)
           /\ outroFile = IF resWidth = <<"3840">>
                          THEN Outro4K(videoType) ELSE Outro1080p(videoType)
           /\ vidList # <<>> => vidList[2] = outroFile
    /\ outputFileName # NoFile =>
           /\ outroFile # NoFile
           /\ outputFileName = CASE videoType = "F" -> "_fms.mp4"
                                 [] videoType = "H" -> "_scorefolioHighlight.mp4"
                                 [] videoType = "S" -> "_sites.mp4"

\* C20 witness: a highlight video whose width is printed as "3840" and a
\* newline has been concatenated with the 4K scorefol.io outro into
\* "_scorefolioHighlight.mp4".
C20_Witness ==
    /\ videoType = "H"
    /\ ffprobeStdout = <<"3840", "\n">>
    /\ resWidth = <<"3840">>
    /\ outroFile = OUTPUT_4K_SCORE
    /\ vidList = <<TEMP_VIDEO_WITH_SILENCE, OUTPUT_4K_SCORE>>
    /\ outputFileName = "_scorefolioHighlight.mp4"
    /\ concatComplete

\* C22: the filter graph has one chain per frame; chain i reads input i,
\* which is frame i of the sorted list as a looped input limited to the
\* duration of segment i; the concat lists v0 .. v(n-1) in that order with n
\* the number of frames.
C22_FilterGraphShape ==
    trace.rendererCalled =>
        LET n == Len(frameFiles)
        IN  /\ Len(renderCmd.inputs) = n
            /\ Len(renderCmd.chains) = n
            /\ \A k \in 1..n :
                  /\ renderCmd.inputs[k].file = frameFiles[k]
                  /\ renderCmd.inputs[k].loop = 1
                  /\ renderCmd.inputs[k].t = renderCmd.chains[k].panDen
                  /\ renderCmd.chains[k].input = k - 1
                  /\ renderCmd.chains[k].output = k - 1
            /\ renderCmd.concat.n = n
            /\ Len(renderCmd.concat.labels) = n
            /\ \A k \in 1..n : renderCmd.concat.labels[k] = renderCmd.chains[k].output

\* C22 witness: three frames have been rendered as three chains v0, v1, v2.
C22_Witness ==
    /\ trace.rendererCalled
    /\ Len(frameFiles) = 3
    /\ renderCmd.concat = [labels |-> <<0, 1, 2>>, n |-> 3]
    /\ renderCmd.chains[3].input = 2
    /\ renderCmd.inputs[3].file = frameFiles[3]

\* the value of a chain's crop expression 'panDistance*t/duration' at time t
\* of its own input; a division by zero gives no number
CropOffset(chain, t) ==
    IF chain.panDen.nan \/ chain.panDen.n = 0 THEN NaN
    ELSE Div(Mul(chain.panNum, t), chain.panDen)

\* C23: the crop offset of every segment is panDistance * t / duration of
\* that segment, with t the time within the segment: it is 0 at t = 0 and
\* panDistance at t = duration, whatever the other segments are.
C23_PanPerSegment ==
    trace.rendererCalled =>
        \A k \in 1..Len(renderCmd.chains) :
            LET chain == renderCmd.chains[k]
            IN  /\ chain.panDen = renderCmd.inputs[k].t
                /\ chain.panNum = plan.panDistance
                /\ NumEq(CropOffset(chain, Int2Num(0)), Int2Num(0))
                /\ NumEq(CropOffset(chain, chain.panDen), plan.panDistance)

\* C25: the timestamps handed to createPanningVideo are non-decreasing and
\* each lies in [0, duration].
C25_TimestampsOrderedInRange ==
    trace.rendererCalled =>
        /\ \A i \in 1..Len(finalTimestamps) :
              /\ Ge(finalTimestamps[i], Int2Num(0))
              /\ Ge(videoInfo.duration, finalTimestamps[i])
        /\ \A i \in 1..(Len(finalTimestamps) - 1) :
              Ge(finalTimestamps[i + 1], finalTimestamps[i])

C28_GetFrameTimestampsOnlyEmpty ==
    /\ trace.gftCalled =>
           /\ Len(frameFiles) = 0
           /\ Len(timestamps) = 0
           /\ usedRegularIntervals
           /\ trace.gftBranch = "regular"
           /\ finalTimestamps = <<>>
    /\ trace.gftBranch # "scene"
    /\ (trace.rendererCalled /\ Len(frameFiles) > 0) => ~trace.gftCalled

\* C28 witness: the fixed-interval pass left no frame, and getFrameTimestamps
\* was called and returned the empty sequence.
C28_Witness ==
    /\ trace.gftCalled
    /\ trace.fixedRan
    /\ Len(frameFiles) = 0
    /\ usedRegularIntervals
    /\ finalTimestamps = <<>>
    /\ pc = "createPanningVideo"

\* C29: OUTPUT_FILE is written by the mux alone, the mux starts only after
\* the render and the audio extraction completed, and after a failed render
\* or audio extraction OUTPUT_FILE is never written.
C29_OutputOnlyByMux ==
    /\ outputFile = trace.muxDone
    /\ pc = "combineAudio" =>
           (trace.rendererCalled /\ trace.audioDone /\ trace.failedStage = "none")
    /\ trace.muxDone => (trace.rendererCalled /\ trace.audioDone)
    /\ trace.failedStage \in {"render", "extractAudio"} =>
           (~outputFile /\ pc = "exited")

\* C29 witness: the audio extraction failed after a completed render, and
\* the run ended without OUTPUT_FILE.
C29_Witness ==
    /\ trace.failedStage = "extractAudio"
    /\ trace.rendererCalled
    /\ ~trace.audioDone
    /\ ~outputFile
    /\ pc = "exited"

\* C30: when extractStills returns with usedRegularIntervals false, it
\* returns at least 2 frames, the fixed-interval pass did not run, and
\* neither the scene-detection pass nor the showinfo pass failed.
C30_FlagFalseMeansSceneFrames ==
    (trace.returned /\ ~usedRegularIntervals) =>
        /\ Len(frameFiles) >= 2
        /\ frameFiles = trace.sceneListed
        /\ ~trace.fixedRan
        /\ trace.unlinked = {}
        /\ trace.sceneRan
        /\ trace.showinfoRan
        /\ ~trace.showinfoThrew
        /\ trace.failedStage \notin {"sceneDetection", "fixedInterval"}

\* C30 witness: extractStills returned 2 scene frames with the flag false.
C30_Witness ==
    /\ trace.returned
    /\ ~usedRegularIntervals
    /\ Len(frameFiles) = 2
    /\ ~trace.fixedRan
    /\ trace.showinfoRan

\* the ordinals of a frame list increase strictly
StrictlyByOrdinal(frames) ==
    \A i, j \in 1..Len(frames) : i < j => ParseInt(frames[i]) < ParseInt(frames[j])

\* C21: the frame list of extractStills is sorted by strictly increasing
\* ordinal parsed from the name (frame_2 before frame_10), whatever order the
\* directory was listed in, after the scene-detection pass and after the
\* fixed-interval pass.
C21_FramesSortedByOrdinal ==
    /\ StrictlyByOrdinal(frameFiles)
    /\ StrictlyByOrdinal(trace.sceneListed)
    /\ SceneListingTaken =>
           \A n \in 1..Len(trace.sceneListed) : trace.sceneListed[n] = FrameName(n)
    /\ (trace.returned /\ trace.fixedRan) =>
           \A n \in 1..Len(frameFiles) : frameFiles[n] = FrameName(n - 1)
    /\ (trace.returned /\ ~trace.fixedRan) => frameFiles = trace.sceneListed

\* C21 witness: the fixed-interval pass wrote frame_0 .. frame_10, and
\* extractStills returned frame_2 third and frame_10 last.
C21_Witness ==
    /\ trace.returned
    /\ trace.fixedRan
    /\ Len(frameFiles) = 11
    /\ frameFiles[2] = <<1>>
    /\ frameFiles[3] = <<2>>
    /\ frameFiles[11] = <<1, 0>>

\* what a line of ShowinfoLines stands for, read off the text of the line:
\* the number after its marker, or NaN when it has no marker followed by a
\* number
Carried(line) ==
    CASE line = ZeroLine     -> R(0, 1)
      [] line = FractionLine -> R(7, 2)
      [] line = LongLine     -> R(41, 4)
      [] OTHER               -> NaN

\* the positions of the lines that carry a number
Carriers(lines) == {i \in 1..Len(lines) : ~Carried(lines[i]).nan}

\* C24: extractSceneTimestampsFromShowinfo returns, in stream order, exactly
\* one timestamp for each line that carries pts_time:<number> with a value that
\* parses; lines without the marker contribute nothing, a match that does not
\* parse is dropped, and without any match the result is the empty sequence
C24_OnePerParsableMarker ==
    showinfoPc = "returned" =>
        /\ Len(showinfoResult) = Cardinality(Carriers(showinfoStderr))
        /\ \A i \in Carriers(showinfoStderr) :
              showinfoResult[Cardinality({j \in Carriers(showinfoStderr) : j <= i})]
                  = Carried(showinfoStderr[i])
        /\ Carriers(showinfoStderr) = {} => showinfoResult = <<>>

\* two timestamps returned in order from a stream that also holds a match of
\* dots only
C24_Witness ==
    /\ showinfoPc = "returned"
    /\ showinfoResult = <<R(7, 2), R(41, 4)>>
    /\ \E j \in 1..Len(showinfoStderr) : showinfoStderr[j] = DotsLine

\* x as an integer multiple of 2^low, in width bits (x is not negative, and
\* not below 2^low times the unit of its significand)
Aligned(x, low, width) ==
    IF IsZero(x) THEN Zeros(width)
    ELSE Zeros(width - SignificandBits - (x.exp - low)) \o x.bits \o Zeros(x.exp - low)

\* x + y = z, exactly, for doubles that are not negative
AddsUpTo(x, y, z) ==
    LET exps  == {v.exp : v \in {w \in {x, y, z} : ~IsZero(w)}} \cup {z.exp}
        low   == CHOOSE e \in exps : \A f \in exps : e <= f
        high  == CHOOSE e \in exps : \A f \in exps : e >= f
        width == SignificandBits + (high - low) + LimbBits
    IN  AddCarry(Aligned(x, low, width), Aligned(y, low, width), 0) = Aligned(z, low, width)

\* the segment durations add up to the duration, exactly: every timestamp
\* plus its segment is the next timestamp, the last timestamp plus its
\* segment is the duration, and the first timestamp is 0
SumIsDuration ==
    /\ evenTimestamps[1] = ZeroDouble
    /\ \A k \in 1..(evenCount - 1) :
          AddsUpTo(evenTimestamps[k], evenDurations[k].mag, evenTimestamps[k + 1])
    /\ AddsUpTo(evenTimestamps[evenCount], evenDurations[evenCount].mag, evenDuration)

\* the double D / n
EvenInterval == DoubleDivInt(evenDuration, evenCount)

\* twice the unit in the last place of the duration
TwoUlps == [nan |-> FALSE, bits |-> <<1>> \o Zeros(SignificandBits - 1),
            exp |-> evenDuration.exp + 1 - (SignificandBits - 1)]

\* x is a double d with |d - D / n| <= 2 ulp(D)
NearInterval(x) ==
    LET gap == IF DoubleLess(x, EvenInterval) THEN Magnitude(EvenInterval, x)
               ELSE Magnitude(x, EvenInterval)
    IN  ~DoubleLess(TwoUlps, gap)

TimestampsFromZeroIncreasing ==
    /\ Len(evenTimestamps) = evenCount
    /\ evenTimestamps[1] = ZeroDouble
    /\ \A i \in 1..(evenCount - 1) : DoubleLess(evenTimestamps[i], evenTimestamps[i + 1])

DurationsPositive ==
    \A k \in 1..evenCount : ~evenDurations[k].neg /\ ~IsZero(evenDurations[k].mag)

\* C27 as stated: for n >= 1 frames and a duration D > 0 the evenly divided
\* timestamps start at 0 and increase strictly, and the n segment durations
\* are all equal to D / n, strictly positive, and sum to D
C27_SegmentsAllEqual ==
    evenPc = "done" =>
        /\ TimestampsFromZeroIncreasing
        /\ DurationsPositive
        /\ \A k \in 1..evenCount : evenDurations[k].mag = EvenInterval
        /\ SumIsDuration

\* C27, amended: the timestamps start at 0 and increase strictly, the n
\* segment durations are strictly positive and sum to D exactly, and each is
\* within two units in the last place of D of the double D / n
C27_SegmentsNearlyEqual ==
    evenPc = "done" =>
        /\ TimestampsFromZeroIncreasing
        /\ DurationsPositive
        /\ \A k \in 1..evenCount : NearInterval(evenDurations[k].mag)
        /\ SumIsDuration

\* 10 seconds over 3 frames: the last segment is not the double 10 / 3
C27_Witness ==
    /\ evenPc = "done"
    /\ evenDuration = DoubleDiv(10, 1)
    /\ evenCount = 3
    /\ evenDurations[1].mag = EvenInterval
    /\ evenDurations[3].mag # EvenInterval

====
